---- MODULE Spec2Model ----
(***************************************************************************)
(* Model of the task Inventory of crates/project/src/task_inventory.rs:   *)
(* the ordered list of registered task sources, the bounded log of        *)
(* scheduled task ids, and the aggregated, ordered listing list_tasks.    *)
(***************************************************************************)
EXTENDS Integers, Sequences, FiniteSets, TLC

VARIABLES
    sources,               \* Inventory::sources: Vec<SourceInInventory>, in insertion order
    last_scheduled_tasks,  \* Inventory::last_scheduled_tasks: VecDeque<TaskId>
    scheduled_log,         \* history variable: every id ever passed to task_scheduled, oldest first
    last_call,             \* history variable: the last call made and what it was observed to do
    candidates,            \* TasksModalDelegate::candidates
    matches,               \* TasksModalDelegate::matches
    selected_index,        \* TasksModalDelegate::selected_index
    prompt,                \* TasksModalDelegate::prompt
    update_matches_pending,  \* the update_matches futures suspended at their await
    modal                  \* "none", "open", "dismissed", or "panicked" once a handler panicked

\* the state of the tasks modal
modal_vars ==
    <<candidates, matches, selected_index, prompt, update_matches_pending, modal>>

vars == <<sources, last_scheduled_tasks, scheduled_log, last_call, modal_vars>>

-----------------------------------------------------------------------------
(* Bounds of the model.                                                    *)

\* most registrations held at once
MaxSources == 2

\* calls of task_scheduled explored by Spec
MaxRecorded == 1

\* calls of task_scheduled explored by SpecList
MaxHistory == 3

\* calls of task_scheduled explored by SpecHistory past the history limit
MaxOverflow == 2

\* update_matches futures suspended at once in SpecModal
MaxPending == 2

\* the fixed bound of the usage history (task_scheduled)
HistoryLimit == 5000

-----------------------------------------------------------------------------
(* Values.                                                                 *)

\* Option::None
None == "None"

Paths == {"p1", "p2"}

WorktreeIds == {"w1", "w2"}

\* enum TaskSourceKind
UserInput == [tag |-> "UserInput"]

AbsPath(p) == [tag |-> "AbsPath", abs_path |-> p]

Worktree(w, p) == [tag |-> "Worktree", id |-> w, abs_path |-> p]

\* the kinds callers register with: one slot shared by three kinds (p1), a
\* worktree id seen at two paths (w1), and the unrestricted UserInput
Kinds ==
    { UserInput, AbsPath("p1"),
      Worktree("w1", "p1"), Worktree("w2", "p1"), Worktree("w1", "p2") }

\* TaskSourceKind::abs_path
TaskSourceKind_abs_path(kind) ==
    IF kind.tag \in {"AbsPath", "Worktree"} THEN kind.abs_path ELSE None

\* TaskSourceKind::worktree
TaskSourceKind_worktree(kind) ==
    IF kind.tag = "Worktree" THEN kind.id ELSE None

\* task names are strings, held as the sequence of their bytes
Name_2_t == <<50, 95, 116>>          \* "2_t"

Name_10_t == <<49, 48, 95, 116>>     \* "10_t"

Name_1_a == <<49, 95, 97>>           \* "1_a"

Name_01_a == <<48, 49, 95, 97>>      \* "01_a"

TaskNames == {Name_2_t, Name_10_t, Name_1_a, Name_01_a}

\* tests::TestTask { id, name }
TestTask(id, name) == [id |-> id, name |-> name]

\* tests::TestSource::new(task_names): the task at index i is named
\* task_names[i] and has the id "task_{i}_{name}"
TestSource_new(type_id, tasks) == [type_id |-> type_id, tasks |-> tasks]

\* the create_static_source closures callers pass: each builds a source of
\* some concrete type holding some tasks
Factories ==
    { TestSource_new("TestSource",
          << TestTask("task_0_2_t", Name_2_t),
             TestTask("task_1_10_t", Name_10_t),
             TestTask("task_2_1_a", Name_1_a) >>),
      TestSource_new("OneshotSource",
          << TestTask("task_0_1_a", Name_1_a),
             TestTask("task_1_01_a", Name_01_a) >>) }

\* the types source::<T> is asked for: the two registered ones and one that
\* never is
TypeIds == {"TestSource", "OneshotSource", "StaticSource"}

\* the ids callers pass to task_scheduled: a task of each source
ScheduledIdSeq == << "task_1_10_t", "task_0_1_a" >>

ScheduledIds == { ScheduledIdSeq[i] : i \in DOMAIN ScheduledIdSeq }

\* the worktree filters list_tasks is called with; its path argument only
\* reaches tasks_for_path, which TestSource ignores
WorktreeArgs == {None} \cup WorktreeIds

-----------------------------------------------------------------------------
(* std::cmp::Ordering and the comparisons list_tasks chains.               *)

Ordering_reverse(o) ==
    CASE o = "Less" -> "Greater"
      [] o = "Greater" -> "Less"
      [] OTHER -> "Equal"

Ordering_then(o, other) == IF o = "Equal" THEN other ELSE o

cmp_int(a, b) == IF a < b THEN "Less" ELSE IF a > b THEN "Greater" ELSE "Equal"

\* bool::cmp: false < true
cmp_bool(a, b) == cmp_int(IF a THEN 1 ELSE 0, IF b THEN 1 ELSE 0)

\* str::cmp: bytewise lexicographic, a proper prefix first
RECURSIVE cmp_str_from(_, _, _)
cmp_str_from(a, b, i) ==
    IF i > Len(a) /\ i > Len(b) THEN "Equal"
    ELSE IF i > Len(a) THEN "Less"
    ELSE IF i > Len(b) THEN "Greater"
    ELSE IF a[i] # b[i] THEN cmp_int(a[i], b[i])
    ELSE cmp_str_from(a, b, i + 1)

cmp_str(a, b) == cmp_str_from(a, b, 1)

is_ascii_digit(c) == c \in 48..57

\* length of the leading run of digits of a name
RECURSIVE digits_len(_, _)
digits_len(name, i) ==
    IF i <= Len(name) /\ is_ascii_digit(name[i]) THEN digits_len(name, i + 1) ELSE i - 1

\* the number a run of digits writes
RECURSIVE digits_value(_, _, _)
digits_value(name, n, i) ==
    IF i > n THEN 0 ELSE (name[i] - 48) * (10 ^ (n - i)) + digits_value(name, n, i + 1)

\* util::NumericPrefixWithSuffix::from_numeric_prefixed_str: a name is split
\* into its leading numeric prefix (if any) and the remaining suffix
from_numeric_prefixed_str(name) ==
    LET n == digits_len(name, 1) IN
    IF n = 0 THEN [some |-> FALSE]
    ELSE [some |-> TRUE,
          prefix |-> digits_value(name, n, 1),
          suffix |-> SubSeq(name, n + 1, Len(name))]

\* the ordering of two such values: no prefix before any prefix, then the
\* prefixes as numbers, then the suffixes
NumericPrefixWithSuffix_cmp(x, y) ==
    IF ~x.some \/ ~y.some THEN cmp_bool(x.some, y.some)
    ELSE Ordering_then(cmp_int(x.prefix, y.prefix), cmp_str(x.suffix, y.suffix))

\* list_tasks, the third key of the comparator: numeric-aware, then the raw name
name_key_cmp(name_a, name_b) ==
    Ordering_then(
        NumericPrefixWithSuffix_cmp(from_numeric_prefixed_str(name_a),
                                    from_numeric_prefixed_str(name_b)),
        cmp_str(name_a, name_b))

\* name_key_cmp over the names in use, computed once
NameOrder == [a \in TaskNames, b \in TaskNames |-> name_key_cmp(a, b)]

\* the comparator with the raw names as its third key
task_cmp_raw_name(a, b) ==
    Ordering_then(
        Ordering_then(
            Ordering_reverse(cmp_int(b.usages, a.usages)),
            cmp_bool(TaskSourceKind_worktree(b.kind) # None,
                     TaskSourceKind_worktree(a.kind) # None)),
        cmp_str(a.task.name, b.task.name))

\* the comparator with the origin as its first key and the usages as its second
task_cmp_origin_first(a, b) ==
    Ordering_then(
        Ordering_then(
            cmp_bool(TaskSourceKind_worktree(b.kind) # None,
                     TaskSourceKind_worktree(a.kind) # None),
            Ordering_reverse(cmp_int(b.usages, a.usages))),
        NameOrder[a.task.name, b.task.name])

\* list_tasks, the comparator handed to sorted_unstable_by; an entry is
\* ((kind, task), usages)
task_cmp(a, b) ==
    Ordering_then(
        Ordering_then(
            Ordering_reverse(cmp_int(b.usages, a.usages)),
            cmp_bool(TaskSourceKind_worktree(b.kind) # None,
                     TaskSourceKind_worktree(a.kind) # None)),
        NameOrder[a.task.name, b.task.name])

-----------------------------------------------------------------------------
(* list_tasks.                                                             *)

\* tests::TestSource::tasks_for_path: the source's tasks, whatever the path
tasks_for_path(source, path) == source.source

\* the fold over the reversed history: each distinct id gets the next score
\* the first time it is met, most recent first
RECURSIVE fold_usage(_, _, _)
fold_usage(history, i, acc) ==
    IF i = 0 THEN acc
    ELSE LET id == history[i] IN
         fold_usage(history, i - 1,
             IF id \in DOMAIN acc.tasks THEN acc
             ELSE [tasks |-> acc.tasks @@ (id :> acc.lru_score),
                   lru_score |-> acc.lru_score + 1])

\* tasks_by_usage and lru_score after it is built
tasks_by_usage(history, lru) ==
    IF lru THEN fold_usage(history, Len(history), [tasks |-> <<>>, lru_score |-> 0])
    ELSE [tasks |-> <<>>, lru_score |-> 0]

\* the filter passing only the sources of the worktree asked for
source_participates_same_worktree(source, worktree) ==
    worktree = None \/ TaskSourceKind_worktree(source.kind) = worktree

\* the worktree filter on a registration
source_participates(source, worktree) ==
    LET source_worktree == TaskSourceKind_worktree(source.kind) IN
    worktree = None \/ source_worktree = None \/ source_worktree = worktree

\* filter + flat_map: every task of every participating source, paired with
\* the source's kind, in registration order
RECURSIVE fan_out(_, _, _, _)
fan_out(srcs, i, path, worktree) ==
    IF i > Len(srcs) THEN <<>>
    ELSE (IF source_participates(srcs[i], worktree)
          THEN LET tasks == tasks_for_path(srcs[i], path) IN
               [j \in 1..Len(tasks) |-> [kind |-> srcs[i].kind, task |-> tasks[j]]]
          ELSE <<>>)
         \o fan_out(srcs, i + 1, path, worktree)

\* the usages looked up by the name of the scheduled task, not by its id
task_usages_by_name(task, by_usage, lru) ==
    LET not_used_score == by_usage.lru_score
        same_name == { id \in DOMAIN by_usage.tasks :
                         \E f \in Factories : \E k \in 1..Len(f.tasks) :
                             f.tasks[k].id = id /\ f.tasks[k].name = task.name }
    IN IF lru /\ same_name # {}
       THEN by_usage.tasks[CHOOSE id \in same_name :
                               \A other \in same_name :
                                   by_usage.tasks[id] <= by_usage.tasks[other]]
       ELSE not_used_score

\* the usages given to one task
task_usages(task, by_usage, lru) ==
    LET not_used_score == by_usage.lru_score IN
    IF lru
    THEN IF task.id \in DOMAIN by_usage.tasks THEN by_usage.tasks[task.id]
         ELSE not_used_score
    ELSE not_used_score

\* the entries ranked by usage whether or not lru is asked for
ranked_fan_out_always_lru(srcs, history, path, worktree, lru) ==
    LET by_usage == tasks_by_usage(history, TRUE)
        pairs == fan_out(srcs, 1, path, worktree)
    IN [j \in 1..Len(pairs) |->
           [kind |-> pairs[j].kind, task |-> pairs[j].task,
            usages |-> task_usages(pairs[j].task, by_usage, TRUE)]]

\* the entries handed to the sort
ranked_fan_out(srcs, history, path, worktree, lru) ==
    LET by_usage == tasks_by_usage(history, lru)
        pairs == fan_out(srcs, 1, path, worktree)
    IN [j \in 1..Len(pairs) |->
           [kind |-> pairs[j].kind, task |-> pairs[j].task,
            usages |-> task_usages(pairs[j].task, by_usage, lru)]]

\* what an unstable sort may do to a run of entries that compare equal: the
\* standard library fixes it for a build but promises no order. unstable_runs
\* is the set of output positions at which the build returns such a run in
\* reverse input order; the empty set is the build whose sort happens to be
\* stable.
UnstableRuns == {{}, {2}}

\* the items of an iterator, pushed onto an empty Vec
Vec_from_iter(items) == <<>> \o items

\* itertools sorted_unstable_by with the comparator of list_tasks: the items
\* are collected into v and sorted there; v[j] goes after the entries that
\* compare Less than it, inside the run of the entries that compare Equal to it
sorted_unstable_by(entries, unstable_runs) ==
    LET v == Vec_from_iter(entries)
        n == Len(v)
        position ==
            Vec_from_iter(
                [j \in 1..n |->
                    LET order == [k \in 1..n |-> task_cmp(v[k], v[j])]
                        lo == 1 + Cardinality({k \in 1..n : order[k] = "Less"})
                        run == {k \in 1..n : order[k] = "Equal"}
                        before == Cardinality({k \in run : k < j})
                    IN IF lo \in unstable_runs
                       THEN lo + (Cardinality(run) - 1 - before)
                       ELSE lo + before])
    IN [p \in 1..n |-> v[CHOOSE j \in 1..n : position[j] = p]]

\* list_tasks keeping one entry per task id, the first in sorted order
list_tasks_unique_ids(self, path, worktree, lru, unstable_runs) ==
    LET out == sorted_unstable_by(
                   ranked_fan_out(self.sources, self.last_scheduled_tasks,
                                  path, worktree, lru),
                   unstable_runs)
        all == Vec_from_iter([j \in 1..Len(out) |-> <<out[j].kind, out[j].task>>])
        first == { j \in 1..Len(all) :
                     \A k \in 1..(j - 1) : all[k][2].id # all[j][2].id }
        nth(n) == CHOOSE j \in first : Cardinality({ k \in first : k < j }) = n - 1
    IN Vec_from_iter([n \in 1..Cardinality(first) |-> all[nth(n)]])

\* Inventory::list_tasks; self is the Inventory, a record of its two fields
list_tasks(self, path, worktree, lru, unstable_runs) ==
    LET out == sorted_unstable_by(
                   ranked_fan_out(self.sources, self.last_scheduled_tasks,
                                  path, worktree, lru),
                   unstable_runs)
    IN Vec_from_iter([j \in 1..Len(out) |-> <<out[j].kind, out[j].task>>])

\* a call of list_tasks as its caller sees it: list_tasks takes &self, so
\* the Inventory after the call is the Inventory before it
list_tasks_call(self, path, worktree, lru, unstable_runs) ==
    [self |-> self,
     listed |-> list_tasks(self, path, worktree, lru, unstable_runs)]

-----------------------------------------------------------------------------
(* The operations of the Inventory, as functions of the Inventory.         *)

\* last_scheduled_task falling back to the latest id that still resolves
last_scheduled_task_fallback(self, unstable_runs) ==
    LET listed == list_tasks(self, None, None, FALSE, unstable_runs)
        history == self.last_scheduled_tasks
        resolving == { h \in 1..Len(history) :
                         \E i \in 1..Len(listed) : listed[i][2].id = history[h] }
    IN IF resolving = {} THEN <<>>
       ELSE LET id == history[CHOOSE h \in resolving : \A g \in resolving : g <= h]
                found == { i \in 1..Len(listed) : listed[i][2].id = id }
            IN << listed[CHOOSE i \in found : \A k \in found : i <= k][2] >>

\* Inventory::last_scheduled_task: the back of the history, looked up in
\* list_tasks(None, None, false). The Option<Arc<dyn Task>> it returns is
\* <<>> for None and <<task>> for Some(task).
last_scheduled_task(self, unstable_runs) ==
    IF self.last_scheduled_tasks = <<>> THEN <<>>
    ELSE LET id == self.last_scheduled_tasks[Len(self.last_scheduled_tasks)]
             listed == list_tasks(self, None, None, FALSE, unstable_runs)
             found == { i \in 1..Len(listed) : listed[i][2].id = id }
         IN IF found = {} THEN <<>>
            ELSE << listed[CHOOSE i \in found : \A k \in found : i <= k][2] >>

\* Inventory::new
Inventory_new == [sources |-> <<>>, last_scheduled_tasks |-> <<>>]

\* the SourceInInventory add_static_source pushes; _subscription is the
\* Subscription of cx.observe, live as long as the record holds it
SourceInInventory(kind, create_static_source) ==
    [source |-> create_static_source.tasks,
     _subscription |-> TRUE,
     type_id |-> create_static_source.type_id,
     kind |-> kind]

\* the early return taken only for a registration of the very same kind
already_exists_same_kind(srcs, kind) ==
    /\ TaskSourceKind_abs_path(kind) # None
    /\ \E i \in 1..Len(srcs) : srcs[i].kind = kind

\* the early return taken only for a kind of the AbsPath variant
already_exists_abs_path_only(srcs, kind) ==
    /\ kind.tag = "AbsPath"
    /\ \E i \in 1..Len(srcs) :
           TaskSourceKind_abs_path(srcs[i].kind) = kind.abs_path

\* add_static_source, the check that makes it return early
already_exists(srcs, kind) ==
    LET abs_path == TaskSourceKind_abs_path(kind) IN
    /\ abs_path # None
    /\ \E i \in 1..Len(srcs) : TaskSourceKind_abs_path(srcs[i].kind) = abs_path

\* add_static_source replacing the registration at the path instead of
\* keeping it
add_static_source_replacing(self, kind, create_static_source) ==
    LET keep(s) == TaskSourceKind_abs_path(s.kind) = None
                   \/ TaskSourceKind_abs_path(s.kind) # TaskSourceKind_abs_path(kind)
    IN [self |-> [self EXCEPT !.sources =
                     Append(SelectSeq(@, keep),
                            SourceInInventory(kind, create_static_source))],
        created |-> TRUE,
        notified |-> TRUE]

\* add_static_source without the cx.notify() after the push
add_static_source_silent(self, kind, create_static_source) ==
    IF already_exists(self.sources, kind)
    THEN [self |-> self, created |-> FALSE, notified |-> FALSE]
    ELSE [self |-> [self EXCEPT !.sources =
                       Append(@, SourceInInventory(kind, create_static_source))],
          created |-> TRUE,
          notified |-> FALSE]

\* Inventory::add_static_source: the Inventory after the call, whether
\* create_static_source was called, and whether cx.notify() was
add_static_source(self, kind, create_static_source) ==
    IF already_exists(self.sources, kind)
    THEN [self |-> self, created |-> FALSE, notified |-> FALSE]
    ELSE [self |-> [self EXCEPT !.sources =
                       Append(@, SourceInInventory(kind, create_static_source))],
          created |-> TRUE,
          notified |-> TRUE]

\* remove_local_static_source dropping registrations of the AbsPath variant
\* only
remove_local_static_source_abs_path_only(self, abs_path) ==
    LET keep(s) == s.kind.tag # "AbsPath" \/ s.kind.abs_path # abs_path IN
    [self EXCEPT !.sources = SelectSeq(@, keep)]

\* Inventory::remove_local_static_source
remove_local_static_source(self, abs_path) ==
    LET keep(s) == TaskSourceKind_abs_path(s.kind) # abs_path IN
    [self EXCEPT !.sources = SelectSeq(@, keep)]

\* remove_worktree_sources dropping the first registration of the worktree
\* only
remove_worktree_sources_first_only(self, worktree) ==
    LET of_worktree == { i \in 1..Len(self.sources) :
                           TaskSourceKind_worktree(self.sources[i].kind) = worktree }
        first == CHOOSE i \in of_worktree : \A k \in of_worktree : i <= k
    IN IF of_worktree = {} THEN self
       ELSE [self EXCEPT !.sources =
                SubSeq(@, 1, first - 1) \o SubSeq(@, first + 1, Len(@))]

\* Inventory::remove_worktree_sources
remove_worktree_sources(self, worktree) ==
    LET keep(s) == TaskSourceKind_worktree(s.kind) # worktree IN
    [self EXCEPT !.sources = SelectSeq(@, keep)]

\* Drop of a SourceInInventory that retain removes: its fields are dropped,
\* the Subscription among them, which ends the observation
SourceInInventory_drop(registration) ==
    [registration EXCEPT !._subscription = FALSE]

\* the registrations retain does not keep, dropped
dropped_by_retain(out) ==
    Vec_from_iter([k \in 1..Len(out) |-> SourceInInventory_drop(out[k])])

\* a call of remove_local_static_source that calls cx.notify() when it
\* removed a registration
remove_local_static_source_call_notifying(self, abs_path) ==
    LET gone(s) == TaskSourceKind_abs_path(s.kind) = abs_path IN
    [self |-> remove_local_static_source(self, abs_path),
     notified |-> SelectSeq(self.sources, gone) # <<>>,
     dropped |-> dropped_by_retain(SelectSeq(self.sources, gone))]

\* a call of remove_local_static_source as observed: the Inventory after
\* it, whether cx.notify() was called (the method has no such call), and the
\* registrations retain dropped
remove_local_static_source_call(self, abs_path) ==
    LET gone(s) == TaskSourceKind_abs_path(s.kind) = abs_path IN
    [self |-> remove_local_static_source(self, abs_path),
     notified |-> FALSE,
     dropped |-> dropped_by_retain(SelectSeq(self.sources, gone))]

\* a call of remove_worktree_sources as observed, likewise
remove_worktree_sources_call(self, worktree) ==
    LET gone(s) == TaskSourceKind_worktree(s.kind) = worktree IN
    [self |-> remove_worktree_sources(self, worktree),
     notified |-> FALSE,
     dropped |-> dropped_by_retain(SelectSeq(self.sources, gone))]

\* task_scheduled without the eviction
task_scheduled_unbounded(self, id) ==
    [self EXCEPT !.last_scheduled_tasks = Append(@, id)]

\* task_scheduled evicting the newest id instead of the oldest
task_scheduled_pop_back(self, id) ==
    LET pushed == Append(self.last_scheduled_tasks, id) IN
    [self EXCEPT !.last_scheduled_tasks =
        IF Len(pushed) > HistoryLimit THEN SubSeq(pushed, 1, Len(pushed) - 1)
        ELSE pushed]

\* task_scheduled putting the id at the head of the history
task_scheduled_push_front(self, id) ==
    LET pushed == <<id>> \o self.last_scheduled_tasks IN
    [self EXCEPT !.last_scheduled_tasks =
        IF Len(pushed) > HistoryLimit THEN Tail(pushed) ELSE pushed]

\* source::<T> returning the last registration of the type
source_last_match(self, target_type_id) ==
    LET matching == { i \in 1..Len(self.sources) :
                        self.sources[i].type_id = target_type_id }
    IN IF matching = {} THEN <<>>
       ELSE LET at == CHOOSE i \in matching : \A k \in matching : k <= i
            IN << [at |-> at, source |-> self.sources[at].source] >>

\* Inventory::source::<T>: find_map over the registrations in order. The
\* Option it returns is <<>> for None and <<handle>> for Some(handle); a
\* handle names the registration whose Model it is a clone of.
source(self, target_type_id) ==
    LET matching == { i \in 1..Len(self.sources) :
                        self.sources[i].type_id = target_type_id }
    IN IF matching = {} THEN <<>>
       ELSE LET at == CHOOSE i \in matching : \A k \in matching : i <= k
            IN << [at |-> at, source |-> self.sources[at].source] >>

\* the source of registration i notifies its observers: the callback given to
\* cx.observe runs if the Subscription is live, and calls cx.notify()
source_notified(self, i) ==
    [self |-> self, notified |-> self.sources[i]._subscription]

\* the source of a registration that retain dropped notifies its observers:
\* the callback runs only if the registration's Subscription is still live
dropped_source_notified(self, registration) ==
    [self |-> self, notified |-> registration._subscription]

\* Inventory::task_scheduled: push_back, then pop_front once the limit is
\* exceeded
task_scheduled(self, id) ==
    LET pushed == Append(self.last_scheduled_tasks, id) IN
    [self EXCEPT !.last_scheduled_tasks =
        IF Len(pushed) > HistoryLimit THEN Tail(pushed) ELSE pushed]

-----------------------------------------------------------------------------
(* The state machine: the calls made on one Inventory.                     *)

\* the Inventory as it stands
inventory == [sources |-> sources, last_scheduled_tasks |-> last_scheduled_tasks]

\* a call as observed: whether it called create_static_source, whether it
\* called cx.notify(), the paths whose registration it was asked to remove,
\* and whether it was an add at a path the call before it was asked to free
Call(op, created, notified, freed, reopened) ==
    [op |-> op, created |-> created, notified |-> notified,
     freed |-> freed, reopened |-> reopened]

\* the absolute paths at which srcs holds a registration
paths_of(srcs) ==
    { TaskSourceKind_abs_path(srcs[i].kind) : i \in 1..Len(srcs) } \ {None}

\* the absolute paths at which srcs holds a Worktree registration of this id
worktree_paths_of(srcs, worktree) ==
    { srcs[i].kind.abs_path :
        i \in { k \in 1..Len(srcs) : /\ srcs[k].kind.tag = "Worktree"
                                     /\ srcs[k].kind.id = worktree } }

\* no tasks modal has been opened
NoModal ==
    /\ candidates = <<>>
    /\ matches = <<>>
    /\ selected_index = 0
    /\ prompt = <<>>
    /\ update_matches_pending = {}
    /\ modal = "none"

Init ==
    /\ sources = Inventory_new.sources
    /\ last_scheduled_tasks = Inventory_new.last_scheduled_tasks
    /\ scheduled_log = <<>>
    /\ last_call = Call("new", FALSE, FALSE, {}, FALSE)
    /\ NoModal

\* a call of add_static_source; the model holds at most MaxSources
\* registrations
AddSource ==
    \E kind \in Kinds, create_static_source \in Factories :
        LET done == add_static_source(inventory, kind, create_static_source) IN
        /\ Len(done.self.sources) <= MaxSources
        /\ sources' = done.self.sources
        /\ last_scheduled_tasks' = done.self.last_scheduled_tasks
        /\ last_call' = Call("add_static_source", done.created, done.notified, {},
                             TaskSourceKind_abs_path(kind) \in last_call.freed)
        /\ UNCHANGED <<scheduled_log, modal_vars>>

\* a call of remove_local_static_source
RemoveByPath ==
    \E abs_path \in Paths :
        LET call == remove_local_static_source_call(inventory, abs_path)
            done == call.self
        IN
        /\ sources' = done.sources
        /\ last_scheduled_tasks' = done.last_scheduled_tasks
        /\ last_call' = Call("remove_local_static_source", FALSE, call.notified,
                             paths_of(sources) \cap {abs_path}, FALSE)
        /\ UNCHANGED <<scheduled_log, modal_vars>>

\* a call of remove_worktree_sources
RemoveByWorktree ==
    \E worktree \in WorktreeIds :
        LET call == remove_worktree_sources_call(inventory, worktree)
            done == call.self
        IN
        /\ sources' = done.sources
        /\ last_scheduled_tasks' = done.last_scheduled_tasks
        /\ last_call' = Call("remove_worktree_sources", FALSE, call.notified,
                             worktree_paths_of(sources, worktree), FALSE)
        /\ UNCHANGED <<scheduled_log, modal_vars>>

\* a call of task_scheduled
Schedule(id) ==
    LET done == task_scheduled(inventory, id) IN
    /\ sources' = done.sources
    /\ last_scheduled_tasks' = done.last_scheduled_tasks
    /\ scheduled_log' = Append(scheduled_log, id)
    /\ last_call' = Call("task_scheduled", FALSE, FALSE, {}, FALSE)
    /\ UNCHANGED modal_vars

RecordScheduled ==
    \E id \in ScheduledIds : Len(scheduled_log) < MaxRecorded /\ Schedule(id)

\* a registered source changes and notifies its observers
SourceChanged ==
    \E i \in 1..Len(sources) :
        LET done == source_notified(inventory, i) IN
        /\ sources' = done.self.sources
        /\ last_scheduled_tasks' = done.self.last_scheduled_tasks
        /\ last_call' = Call("source_changed", FALSE, done.notified, {}, FALSE)
        /\ UNCHANGED <<scheduled_log, modal_vars>>

Next ==
    \/ AddSource
    \/ RemoveByPath
    \/ RemoveByWorktree
    \/ RecordScheduled
    \/ SourceChanged

\* every operation of the Inventory, in any order
Spec == Init /\ [][Next]_vars

\* the lists of registrations add_static_source can build: any registrations
\* in any order, no two at one absolute path
RegistrationLists ==
    LET Registrations ==
            { SourceInInventory(kind, f) : kind \in Kinds, f \in Factories }
        OnePerPath(srcs) ==
            \A i, j \in 1..Len(srcs) :
                (i # j /\ TaskSourceKind_abs_path(srcs[i].kind) # None)
                => TaskSourceKind_abs_path(srcs[i].kind)
                       # TaskSourceKind_abs_path(srcs[j].kind)
    IN { srcs \in UNION { [1..n -> Registrations] : n \in 0..MaxSources } :
           OnePerPath(srcs) }

\* an Inventory holding any such registrations and no usage yet
InitList ==
    /\ sources \in RegistrationLists
    /\ last_scheduled_tasks = <<>>
    /\ scheduled_log = <<>>
    /\ last_call = Call("new", FALSE, FALSE, {}, FALSE)
    /\ NoModal

RecordForListing ==
    \E id \in ScheduledIds : Len(scheduled_log) < MaxHistory /\ Schedule(id)

\* list_tasks over every such list of registrations and every usage history
SpecList == InitList /\ [][RecordForListing]_vars

\* the id the i-th call of a fixed cycle of task_scheduled calls records
CycleId(i) == ScheduledIdSeq[((i - 1) % Len(ScheduledIdSeq)) + 1]

\* a new Inventory, or the Inventory the cycle of calls has filled to one id
\* short of the limit
InitHistory ==
    /\ sources = <<>>
    /\ NoModal
    /\ \E n \in {0, HistoryLimit - 1} :
           /\ last_scheduled_tasks = [i \in 1..n |-> CycleId(i)]
           /\ scheduled_log = [i \in 1..n |-> CycleId(i)]
           /\ last_call = IF n = 0 THEN Call("new", FALSE, FALSE, {}, FALSE)
                                   ELSE Call("task_scheduled", FALSE, FALSE, {}, FALSE)

\* task_scheduled called with the cycle of ids until the history is one short
\* of its limit
RecordFill ==
    /\ Len(scheduled_log) < HistoryLimit - 1
    /\ Schedule(CycleId(Len(scheduled_log) + 1))

\* task_scheduled called with any id around and past the limit
RecordPastLimit ==
    \E id \in ScheduledIds :
        /\ Len(scheduled_log) >= HistoryLimit - 1
        /\ Len(scheduled_log) < HistoryLimit + MaxOverflow
        /\ Schedule(id)

NextHistory == RecordFill \/ RecordPastLimit

\* the usage history driven to and past its limit
SpecHistory == InitHistory /\ [][NextHistory]_vars

-----------------------------------------------------------------------------
(* The tasks modal of tasks_ui: its delegate and the handlers the picker   *)
(* calls on it, while the Inventory goes on changing.                      *)

\* the queries typed into the modal: "" and "0"
Queries == { <<>>, <<48>> }

\* the active item's worktree, as active_item_path finds it
ActiveWorktrees == WorktreeArgs

\* the registrations made while the modal is open: two kinds at different
\* paths, one of a worktree and one not, so that no two listed tasks tie
ModalKinds == { AbsPath("p1"), Worktree("w1", "p2") }

ModalFactories == { f \in Factories : f.type_id = "OneshotSource" }

\* the chars of query occur in string from position i on, in order
RECURSIVE matches_from(_, _, _, _)
matches_from(query, q, string, i) ==
    IF q > Len(query) THEN TRUE
    ELSE IF i > Len(string) THEN FALSE
    ELSE IF query[q] = string[i] THEN matches_from(query, q + 1, string, i + 1)
    ELSE matches_from(query, q, string, i + 1)

\* fuzzy::match_strings: a StringMatch for every candidate the query matches,
\* carrying the candidate's id and string
match_strings(string_candidates, query) ==
    LET hit(c) == matches_from(query, 1, c.string, 1)
        hits == SelectSeq(string_candidates, hit)
    IN Vec_from_iter([k \in 1..Len(hits) |->
           [candidate_id |-> hits[k].id, string |-> hits[k].string]])

\* update_matches, l.158-168: a StringMatchCandidate per candidate, its id
\* the candidate's index (from 0)
string_match_candidates(listed) ==
    Vec_from_iter([k \in 1..Len(listed) |->
        [id |-> k - 1, string |-> listed[k][2].name]])

\* OneshotSource::spawn: the task made of the prompt
OneshotSource_spawn(text) == TestTask("oneshot", text)

\* TasksModalDelegate::spawn_oneshot
spawn_oneshot(self, text) ==
    IF source(self, "OneshotSource") = <<>> THEN <<>>
    ELSE << OneshotSource_spawn(text) >>

\* Vec indexing, vec[ix] with ix counted from 0: in bounds or a panic
in_bounds(vec, ix) == ix < Len(vec)

\* TasksModalDelegate::new, in an empty Inventory
InitModal ==
    /\ sources = Inventory_new.sources
    /\ last_scheduled_tasks = Inventory_new.last_scheduled_tasks
    /\ scheduled_log = <<>>
    /\ last_call = Call("new", FALSE, FALSE, {}, FALSE)
    /\ candidates = <<>>
    /\ matches = <<>>
    /\ selected_index = 0
    /\ prompt = <<>>
    /\ update_matches_pending = {}
    /\ modal = "open"

\* add_static_source, called while the modal is there
AddSourceBesideModal ==
    \E kind \in ModalKinds, create_static_source \in ModalFactories :
        LET done == add_static_source(inventory, kind, create_static_source) IN
        /\ Len(done.self.sources) <= MaxSources
        /\ sources' = done.self.sources
        /\ last_scheduled_tasks' = done.self.last_scheduled_tasks
        /\ last_call' = Call("add_static_source", done.created, done.notified, {},
                             TaskSourceKind_abs_path(kind) \in last_call.freed)
        /\ UNCHANGED <<scheduled_log, modal_vars>>

\* update_matches up to its await: candidates is replaced by a fresh
\* list_tasks, the string candidates are built and the future suspends
UpdateMatchesListed ==
    \E query \in Queries, worktree \in ActiveWorktrees,
       unstable_runs \in UnstableRuns :
        LET done == list_tasks_call(inventory, None, worktree, TRUE, unstable_runs)
            run == [query |-> query,
                    candidates |-> string_match_candidates(done.listed)]
        IN /\ modal = "open"
           /\ Cardinality(update_matches_pending \cup {run}) <= MaxPending
           /\ candidates' = done.listed
           /\ update_matches_pending' = update_matches_pending \cup {run}
           /\ sources' = done.self.sources
           /\ last_scheduled_tasks' = done.self.last_scheduled_tasks
           /\ last_call' = Call("update_matches", FALSE, FALSE, {}, FALSE)
           /\ UNCHANGED <<scheduled_log, matches, selected_index, prompt, modal>>

\* update_matches after its await, for any of the suspended futures: matches
\* and prompt are replaced and selected_index is clamped
UpdateMatchesMatched ==
    \E run \in update_matches_pending :
        LET found == match_strings(run.candidates, run.query) IN
        /\ modal = "open"
        /\ matches' = found
        /\ prompt' = run.query
        /\ selected_index' =
               IF found = <<>> THEN 0
               ELSE IF selected_index < Len(found) - 1 THEN selected_index
               ELSE Len(found) - 1
        /\ update_matches_pending' = update_matches_pending \ {run}
        /\ last_call' = Call("update_matches_matched", FALSE, FALSE, {}, FALSE)
        /\ UNCHANGED <<sources, last_scheduled_tasks, scheduled_log, candidates, modal>>

\* set_selected_index, called by the picker with the index of a match
SetSelectedIndex ==
    \E ix \in 0..(Len(matches) - 1) :
        /\ modal = "open"
        /\ selected_index' = ix
        /\ last_call' = Call("set_selected_index", FALSE, FALSE, {}, FALSE)
        /\ UNCHANGED <<sources, last_scheduled_tasks, scheduled_log, candidates,
                       matches, prompt, update_matches_pending, modal>>

\* confirm: the task is the one-shot task of the prompt (secondary) or the
\* candidate the selected match names; indexing candidates out of bounds
\* panics; a task is scheduled (schedule_task records it with task_scheduled)
\* and the modal is dismissed
Confirm ==
    \E secondary \in BOOLEAN :
        LET current_match_index == selected_index
            indexed == ~secondary /\ current_match_index < Len(matches)
            ix == matches[current_match_index + 1].candidate_id
            panics == indexed /\ ~in_bounds(candidates, ix)
            task == IF secondary
                    THEN (IF prompt # <<>> THEN spawn_oneshot(inventory, prompt)
                          ELSE <<>>)
                    ELSE (IF indexed /\ ~panics THEN << candidates[ix + 1][2] >>
                          ELSE <<>>)
        IN /\ modal = "open"
           /\ last_call' = Call("confirm", FALSE, FALSE, {}, FALSE)
           /\ UNCHANGED <<sources, candidates, matches, selected_index, prompt,
                          update_matches_pending>>
           /\ IF panics
              THEN /\ modal' = "panicked"
                   /\ UNCHANGED <<last_scheduled_tasks, scheduled_log>>
              ELSE IF task = <<>>
              THEN UNCHANGED <<last_scheduled_tasks, scheduled_log, modal>>
              ELSE /\ last_scheduled_tasks' =
                          task_scheduled(inventory, task[1].id).last_scheduled_tasks
                   /\ scheduled_log' = Append(scheduled_log, task[1].id)
                   /\ modal' = "dismissed"

\* render_match for one of the matches: it indexes candidates by the match's
\* candidate_id, which panics out of bounds, and changes nothing otherwise
RenderMatch ==
    \E ix \in 0..(Len(matches) - 1) :
        LET hit == matches[ix + 1] IN
        /\ modal = "open"
        /\ modal' = IF in_bounds(candidates, hit.candidate_id) THEN modal
                    ELSE "panicked"
        /\ last_call' = Call("render_match", FALSE, FALSE, {}, FALSE)
        /\ UNCHANGED <<sources, last_scheduled_tasks, scheduled_log, candidates,
                       matches, selected_index, prompt, update_matches_pending>>

\* dismissed: the modal is closed
Dismissed ==
    /\ modal = "open"
    /\ modal' = "dismissed"
    /\ last_call' = Call("dismissed", FALSE, FALSE, {}, FALSE)
    /\ UNCHANGED <<sources, last_scheduled_tasks, scheduled_log, candidates,
                   matches, selected_index, prompt, update_matches_pending>>

NextModal ==
    \/ AddSourceBesideModal
    \/ RemoveByPath
    \/ RemoveByWorktree
    \/ UpdateMatchesListed
    \/ UpdateMatchesMatched
    \/ SetSelectedIndex
    \/ Confirm
    \/ RenderMatch
    \/ Dismissed

\* the tasks modal, open over an Inventory that gains and loses sources
SpecModal == InitModal /\ [][NextModal]_vars

-----------------------------------------------------------------------------
(* Vocabulary of the properties.                                           *)

PathCarrying(kind) == kind.tag \in {"AbsPath", "Worktree"}

\* a registration of srcs sits at the absolute path of kind
PathOccupied(srcs, kind) ==
    /\ PathCarrying(kind)
    /\ \E i \in 1..Len(srcs) :
           /\ PathCarrying(srcs[i].kind)
           /\ srcs[i].kind.abs_path = kind.abs_path

\* a Worktree registration of srcs has the worktree id of kind
WorktreeOccupied(srcs, kind) ==
    /\ kind.tag = "Worktree"
    /\ \E i \in 1..Len(srcs) :
           /\ srcs[i].kind.tag = "Worktree"
           /\ srcs[i].kind.id = kind.id

\* what the registrations of one kind contribute to a listing
ContributionOf(listing, kind) ==
    LET of_kind(entry) == entry[1] = kind IN SelectSeq(listing, of_kind)

-----------------------------------------------------------------------------
(* Registration.                                                           *)

\* C1: in every reachable state no two registrations whose kinds carry a path
\* (AbsPath or Worktree, any worktree id) have equal absolute paths; UserInput
\* registrations are not limited.
C1_OneRegistrationPerPath ==
    \A i, j \in 1..Len(sources) :
        (/\ i # j
         /\ PathCarrying(sources[i].kind)
         /\ PathCarrying(sources[j].kind))
        => sources[i].kind.abs_path # sources[j].kind.abs_path

\* C1 witness: two path slots are taken and an add at a taken slot has just
\* been turned away.
C1_Witness ==
    /\ Len(sources) = 2
    /\ PathCarrying(sources[1].kind) /\ PathCarrying(sources[2].kind)
    /\ last_call.op = "add_static_source" /\ ~last_call.created

\* C2: from every reachable state, add_static_source with a path-carrying kind
\* whose path is registered already changes nothing: no factory call, the same
\* registrations in the same order, the same usage history, no notification.
C2_DuplicateAddIsNoOp ==
    \A kind \in Kinds, create_static_source \in Factories :
        PathOccupied(sources, kind)
        => LET done == add_static_source(inventory, kind, create_static_source) IN
           /\ ~done.created
           /\ ~done.notified
           /\ done.self.sources = sources
           /\ done.self.last_scheduled_tasks = last_scheduled_tasks

\* C2 witness: an add was turned away, with no notification, while a source
\* sits at a path and the usage history is not empty.
C2_Witness ==
    /\ last_call.op = "add_static_source"
    /\ ~last_call.created /\ ~last_call.notified
    /\ \E i \in 1..Len(sources) : PathCarrying(sources[i].kind)
    /\ last_scheduled_tasks # <<>>

\* what every registration of before contributes to the listing, under every
\* worktree filter, with lru or without, is the same in after
ContributionsUnchanged(before, after) ==
    \A worktree \in WorktreeArgs, lru \in BOOLEAN, unstable_runs \in UnstableRuns :
        LET listed_before == list_tasks(before, None, worktree, lru, unstable_runs)
            listed_after == list_tasks(after, None, worktree, lru, unstable_runs)
        IN \A i \in 1..Len(before.sources) :
               ContributionOf(listed_after, before.sources[i].kind)
                   = ContributionOf(listed_before, before.sources[i].kind)

\* the Inventories add_static_source can leave when called in this state with
\* a path-carrying kind for which taken(sources, kind) holds
AfterAddWhere(taken(_, _)) ==
    { add_static_source(inventory, kind, f).self :
        kind \in { k \in Kinds : PathCarrying(k) /\ taken(sources, k) },
        f \in Factories }

\* whether add_static_source calls the factory for some such kind
CreatesWhere(taken(_, _)) ==
    \E kind \in { k \in Kinds : PathCarrying(k) /\ taken(sources, k) },
       f \in Factories :
        add_static_source(inventory, kind, f).created

PathOrWorktreeOccupied(srcs, kind) ==
    PathOccupied(srcs, kind) \/ WorktreeOccupied(srcs, kind)

\* C3, as claimed: an add with a path-carrying kind, made while a registered
\* source has the same absolute path or the same worktree id, does not call
\* the factory and leaves what the registered sources contribute to every
\* listing unchanged.
C3_DedupByPathOrWorktreeId ==
    /\ ~CreatesWhere(PathOrWorktreeOccupied)
    /\ \A after \in AfterAddWhere(PathOrWorktreeOccupied) :
           ContributionsUnchanged(inventory, after)

\* C3, amended: the same, for an add made while a registered source has the
\* same absolute path; the worktree id alone does not close the slot: an add
\* at a free path calls the factory whatever worktree ids are registered.
C3_DedupByPath ==
    /\ ~CreatesWhere(PathOccupied)
    /\ \A after \in AfterAddWhere(PathOccupied) :
           ContributionsUnchanged(inventory, after)
    /\ \A kind \in Kinds, f \in Factories :
           (WorktreeOccupied(sources, kind) /\ ~PathOccupied(sources, kind))
           => add_static_source(inventory, kind, f).created

\* C3 witness: an add was turned away while two sources are registered, one
\* of them at a path, each contributing tasks to the unfiltered listing.
C3_Witness ==
    /\ last_call.op = "add_static_source" /\ ~last_call.created
    /\ Len(sources) = 2
    /\ \A i \in 1..2 :
           ContributionOf(list_tasks(inventory, None, None, FALSE, {}),
                          sources[i].kind) # <<>>

Range(seq) == { seq[i] : i \in 1..Len(seq) }

\* C4: right after a removal (remove_local_static_source, or
\* remove_worktree_sources of its worktree id) has dropped the registration at
\* an absolute path, no listed task comes from that path, and
\* add_static_source with any kind at that path calls the factory and appends
\* the registration; the unfiltered listings then hold every task of the new
\* source, and nothing else from that path.
C4_RemovalReopensSlot ==
    \A abs_path \in last_call.freed :
        /\ \A lru \in BOOLEAN, unstable_runs \in UnstableRuns :
               \A entry \in Range(list_tasks(inventory, None, None, lru, unstable_runs)) :
                   TaskSourceKind_abs_path(entry[1]) # abs_path
        /\ \A kind \in { k \in Kinds : PathCarrying(k) /\ k.abs_path = abs_path },
              f \in Factories :
               LET done == add_static_source(inventory, kind, f) IN
               /\ done.created
               /\ done.self.sources = Append(sources, SourceInInventory(kind, f))
               /\ \A lru \in BOOLEAN, unstable_runs \in UnstableRuns :
                      LET listed == list_tasks(done.self, None, None, lru, unstable_runs)
                      IN /\ \A task \in Range(f.tasks) : <<kind, task>> \in Range(listed)
                         /\ \A entry \in Range(listed) :
                                TaskSourceKind_abs_path(entry[1]) = abs_path
                                => entry[1] = kind /\ entry[2] \in Range(f.tasks)

\* C4 witness: a call was asked to remove the source at a path, the next call
\* added a source at that path, next to a source of another type, and the
\* tasks of the new source are listed.
C4_Witness ==
    /\ last_call.op = "add_static_source"
    /\ last_call.reopened /\ last_call.created
    /\ \E i \in 1..Len(sources) : sources[i].type_id # sources[Len(sources)].type_id
    /\ \A task \in Range(sources[Len(sources)].source) :
           <<sources[Len(sources)].kind, task>>
               \in Range(list_tasks(inventory, None, None, TRUE, {}))

-----------------------------------------------------------------------------
(* The usage history.                                                      *)

\* C5: in every reachable state the usage history holds at most HistoryLimit
\* (5,000) ids.
C5_HistoryBounded == Len(last_scheduled_tasks) <= HistoryLimit

\* C5 witness: more ids were recorded than the limit and the history is full.
C5_Witness ==
    /\ Len(scheduled_log) > HistoryLimit
    /\ Len(last_scheduled_tasks) = HistoryLimit

\* C6: after n calls of task_scheduled the usage history is the last
\* min(n, HistoryLimit) ids recorded, in the order recorded, repeats kept; and
\* the next call appends its id at the tail and, when that exceeds the limit,
\* drops exactly the head.
C6_HistoryIsRecentLog ==
    LET n == Len(scheduled_log)
        kept == IF n < HistoryLimit THEN n ELSE HistoryLimit
    IN /\ last_scheduled_tasks = SubSeq(scheduled_log, n - kept + 1, n)
       /\ \A id \in ScheduledIds :
              task_scheduled(inventory, id).last_scheduled_tasks
                  = IF Len(last_scheduled_tasks) < HistoryLimit
                    THEN Append(last_scheduled_tasks, id)
                    ELSE Append(Tail(last_scheduled_tasks), id)

\* C6 witness: two ids were recorded past the limit, the same id twice in a
\* row at the tail, and the two oldest ids are gone.
C6_Witness ==
    /\ Len(scheduled_log) = HistoryLimit + 2
    /\ Len(last_scheduled_tasks) = HistoryLimit
    /\ last_scheduled_tasks[HistoryLimit] = last_scheduled_tasks[HistoryLimit - 1]
    /\ last_scheduled_tasks[1] = scheduled_log[3]
    /\ scheduled_log[2] # scheduled_log[3]

-----------------------------------------------------------------------------
(* The order of list_tasks.                                                *)

\* list_tasks of the Inventory as it stands, for any path
Listed(worktree, lru, unstable_runs) ==
    list_tasks(inventory, None, worktree, lru, unstable_runs)

\* the entry's task id occurs in the usage history
Used(entry) == entry[2].id \in Range(last_scheduled_tasks)

\* where the usage history last holds id
LastUse(id) ==
    CHOOSE i \in 1..Len(last_scheduled_tasks) :
        /\ last_scheduled_tasks[i] = id
        /\ \A k \in (i + 1)..Len(last_scheduled_tasks) : last_scheduled_tasks[k] # id

FromWorktree(entry) == TaskSourceKind_worktree(entry[1]) # None

Names(listing) == [i \in 1..Len(listing) |-> listing[i][2].name]

\* used before unused, and the more recently used first
UsedFirstMostRecentFirst(listed) ==
    \A i, j \in 1..Len(listed) :
        /\ (Used(listed[i]) /\ ~Used(listed[j])) => i < j
        /\ (/\ Used(listed[i]) /\ Used(listed[j])
            /\ listed[i][2].id # listed[j][2].id
            /\ LastUse(listed[i][2].id) > LastUse(listed[j][2].id))
           => i < j

\* worktree entries first, then by numeric-aware name
SortedByOriginThenName(listing) ==
    \A i, j \in 1..Len(listing) :
        i < j =>
            /\ FromWorktree(listing[j]) => FromWorktree(listing[i])
            /\ (FromWorktree(listing[i]) = FromWorktree(listing[j]))
               => NameOrder[listing[i][2].name, listing[j][2].name] # "Greater"

\* C7, as claimed: with lru, used tasks come before unused ones, of two used
\* tasks the more recently used comes first however often either was
\* recorded, and the unused tasks are in the order the listing without lru
\* gives them.
C7_RecencyOrder ==
    \A worktree \in WorktreeArgs, unstable_runs \in UnstableRuns :
        LET listed == Listed(worktree, TRUE, unstable_runs)
            plain == Listed(worktree, FALSE, unstable_runs)
            Unused(entry) == ~Used(entry)
        IN /\ UsedFirstMostRecentFirst(listed)
           /\ SelectSeq(listed, Unused) = SelectSeq(plain, Unused)

\* what holds of C7's order whatever the sort does with ties: used first, most
\* recent first, and the unused tasks sorted by origin and name
RecencyOrderUpToTies ==
    \A worktree \in WorktreeArgs, unstable_runs \in UnstableRuns :
        LET listed == Listed(worktree, TRUE, unstable_runs)
            Unused(entry) == ~Used(entry)
        IN /\ UsedFirstMostRecentFirst(listed)
           /\ SortedByOriginThenName(SelectSeq(listed, Unused))

\* a usage history moves a task to the front while two unused tasks tie on
\* every key
RecencyOrderUpToTies_Witness ==
    LET listed == Listed(None, TRUE, {}) IN
    /\ Len(last_scheduled_tasks) = 3
    /\ \E i, j \in 1..Len(listed) :
           /\ i < j
           /\ ~Used(listed[i]) /\ ~Used(listed[j])
           /\ listed[i] = listed[j]
    /\ \E i \in 1..Len(listed) : Used(listed[i])

\* C8: without lru, list_tasks returns what it returns for the same
\* registrations and no usage history at all, and the entries are sorted by
\* worktree origin first, then by numeric-aware name.
C8_PlainListingIgnoresUsage ==
    \A worktree \in WorktreeArgs, unstable_runs \in UnstableRuns :
        LET plain == Listed(worktree, FALSE, unstable_runs) IN
        /\ plain = list_tasks([inventory EXCEPT !.last_scheduled_tasks = <<>>],
                              None, worktree, FALSE, unstable_runs)
        /\ SortedByOriginThenName(plain)

\* C8 witness: the usage history reorders the lru listing, and the listing
\* holds worktree and other entries.
C8_Witness ==
    /\ Listed(None, TRUE, {}) # Listed(None, FALSE, {})
    /\ \E i \in 1..Len(sources) : TaskSourceKind_worktree(sources[i].kind) # None
    /\ \E i \in 1..Len(sources) : TaskSourceKind_worktree(sources[i].kind) = None

\* C9: when no listed task has its id in the usage history (the history is
\* empty, or holds other ids only), list_tasks with lru returns the sequence
\* it returns without.
C9_NoListedUsageSameOrder ==
    \A worktree \in WorktreeArgs, unstable_runs \in UnstableRuns :
        LET listed == Listed(worktree, TRUE, unstable_runs) IN
        (\A i \in 1..Len(listed) : ~Used(listed[i]))
        => listed = Listed(worktree, FALSE, unstable_runs)

\* C9 witness: ids are recorded, none of them of a listed task, and tasks of
\* two sources are listed.
C9_Witness ==
    /\ last_scheduled_tasks # <<>>
    /\ Len(sources) = 2
    /\ Listed(None, TRUE, {}) # <<>>
    /\ \A i \in 1..Len(Listed(None, TRUE, {})) : ~Used(Listed(None, TRUE, {})[i])

\* the names in use, parsed
Parsed == [name \in TaskNames |-> from_numeric_prefixed_str(name)]

\* two listed entries have the same recency rank
SameRank(a, b, lru) == ~lru \/ a[2].id = b[2].id \/ (~Used(a) /\ ~Used(b))

\* C10: of two listed tasks of equal recency rank and equal origin whose
\* names both start with digits, the one with the smaller number comes first;
\* the numeric-aware comparison decides whenever it does not tie, and the raw
\* name decides when it does. A source with the names 2_t, 10_t, 1_a lists as
\* 1_a, 2_t, 10_t.
C10_NumericPrefixOrder ==
    \A worktree \in WorktreeArgs, lru \in BOOLEAN, unstable_runs \in UnstableRuns :
        LET listed == Listed(worktree, lru, unstable_runs) IN
        /\ \A i, j \in 1..Len(listed) :
               (/\ i < j
                /\ SameRank(listed[i], listed[j], lru)
                /\ FromWorktree(listed[i]) = FromWorktree(listed[j])
                /\ Parsed[listed[i][2].name].some
                /\ Parsed[listed[j][2].name].some)
               => LET x == Parsed[listed[i][2].name]
                      y == Parsed[listed[j][2].name]
                      numeric == NumericPrefixWithSuffix_cmp(x, y)
                  IN /\ x.prefix <= y.prefix
                     /\ numeric # "Greater"
                     /\ numeric = "Equal"
                        => cmp_str(listed[i][2].name, listed[j][2].name) # "Greater"
        /\ (/\ Len(sources) = 1 /\ sources[1].type_id = "TestSource"
            /\ source_participates(sources[1], worktree)
            /\ ~lru)
           => Names(listed) = <<Name_1_a, Name_2_t, Name_10_t>>

\* C10 witness: with a usage history, the listing holds 2_t before 10_t and
\* 01_a before 1_a, next to each other and of equal rank.
C10_Witness ==
    LET listed == Listed(None, TRUE, {}) IN
    /\ last_scheduled_tasks # <<>>
    /\ \E i \in 1..(Len(listed) - 1) :
           /\ listed[i][2].name = Name_2_t /\ listed[i + 1][2].name = Name_10_t
           /\ SameRank(listed[i], listed[i + 1], TRUE)
    /\ \E i \in 1..(Len(listed) - 1) :
           /\ listed[i][2].name = Name_01_a /\ listed[i + 1][2].name = Name_1_a
           /\ SameRank(listed[i], listed[i + 1], TRUE)

-----------------------------------------------------------------------------
(* The worktree filter of list_tasks.                                      *)

\* how often x occurs in seq
Occurrences(seq, x) == Cardinality({ i \in 1..Len(seq) : seq[i] = x })

\* the tasks registration i holds, each paired with the registration's kind
PairsOf(i) ==
    { <<i, j>> : j \in 1..Len(sources[i].source) }

\* C11: under every worktree filter, with lru or without, registration i
\* contributes its tasks to list_tasks exactly when no filter is given, or
\* its kind is UserInput or AbsPath, or its kind is Worktree with the id of
\* the filter; the registrations that do not pass contribute nothing.
C11_WorktreeFilter ==
    \A worktree \in WorktreeArgs, lru \in BOOLEAN, unstable_runs \in UnstableRuns :
        LET listed == Listed(worktree, lru, unstable_runs)
            Passes(i) ==
                \/ worktree = None
                \/ sources[i].kind.tag \in {"UserInput", "AbsPath"}
                \/ sources[i].kind.tag = "Worktree" /\ sources[i].kind.id = worktree
            passing == UNION { PairsOf(i) : i \in { k \in 1..Len(sources) : Passes(k) } }
            Entry(at) == <<sources[at[1]].kind, sources[at[1]].source[at[2]]>>
        IN /\ Len(listed) = Cardinality(passing)
           /\ \A i \in 1..Len(sources) : \A at \in PairsOf(i) :
                  Occurrences(listed, Entry(at))
                      = Cardinality({ other \in passing : Entry(other) = Entry(at) })

\* C11 witness: a Worktree source and a source without worktree id are
\* registered; the filter of another worktree id lists the tasks of the
\* second only, no filter lists both.
C11_Witness ==
    /\ Len(sources) = 2
    /\ sources[1].kind.tag = "Worktree" /\ sources[1].kind.id = "w1"
    /\ sources[2].kind.tag = "AbsPath"
    /\ Len(Listed("w2", TRUE, {})) = Len(sources[2].source)
    /\ Len(Listed("w1", TRUE, {})) = Len(sources[1].source) + Len(sources[2].source)
    /\ Len(Listed(None, TRUE, {})) = Len(Listed("w1", TRUE, {}))

-----------------------------------------------------------------------------
(* last_scheduled_task.                                                    *)

\* the tasks the registrations hold
RegisteredTasks ==
    UNION { Range(sources[i].source) : i \in 1..Len(sources) }

\* C12: last_scheduled_task is None (<<>>) when the usage history is empty or no
\* registered source holds a task with the id at the tail of the history,
\* whatever earlier ids resolve to; otherwise it is the task of the first
\* entry of list_tasks(None, None, false) with the id at the tail.
C12_LastScheduledTask ==
    \A unstable_runs \in UnstableRuns :
        LET found == last_scheduled_task(inventory, unstable_runs)
            n == Len(last_scheduled_tasks)
            plain == Listed(None, FALSE, unstable_runs)
        IN /\ n = 0 => found = <<>>
           /\ (n > 0 /\ \A task \in RegisteredTasks : task.id # last_scheduled_tasks[n])
              => found = <<>>
           /\ (n > 0 /\ \E task \in RegisteredTasks : task.id = last_scheduled_tasks[n])
              => /\ Len(found) = 1
                 /\ found[1].id = last_scheduled_tasks[n]
                 /\ \E i \in 1..Len(plain) :
                        /\ plain[i][2] = found[1]
                        /\ \A k \in 1..(i - 1) : plain[k][2].id # found[1].id

\* C12 witness: the id at the tail of the history belongs to no registered
\* source while an earlier id does, and last_scheduled_task is None.
C12_Witness ==
    /\ Len(last_scheduled_tasks) = 2
    /\ \E task \in RegisteredTasks : task.id = last_scheduled_tasks[1]
    /\ \A task \in RegisteredTasks : task.id # last_scheduled_tasks[2]
    /\ last_scheduled_task(inventory, {}) = <<>>

-----------------------------------------------------------------------------
(* Removal.                                                                *)

\* the Inventory as it stands, and as one more add_static_source leaves it
InventoriesNearby ==
    {inventory}
        \cup { add_static_source(inventory, kind, f).self :
                 kind \in Kinds, f \in Factories }

\* srcs without the registrations for which gone holds, the others in the
\* order they have in srcs
Without(srcs, gone(_)) ==
    LET kept == { i \in 1..Len(srcs) : ~gone(srcs[i]) }
        nth(n) == CHOOSE i \in kept : Cardinality({ k \in kept : k < i }) = n - 1
    IN [n \in 1..Cardinality(kept) |-> srcs[nth(n)]]

\* C14: remove_local_static_source(p) drops every registration whose kind is
\* AbsPath or Worktree with the absolute path p and nothing else: the other
\* registrations stay, in the order they had, and the usage history is the
\* same.
C14_RemoveByPathFrame ==
    \A before \in InventoriesNearby, abs_path \in Paths :
        LET after == remove_local_static_source(before, abs_path)
            AtPath(s) == s.kind.tag \in {"AbsPath", "Worktree"}
                         /\ s.kind.abs_path = abs_path
        IN /\ after.sources = Without(before.sources, AtPath)
           /\ after.last_scheduled_tasks = before.last_scheduled_tasks

\* C14 witness: remove_local_static_source has removed the registration at
\* its path and left another one, with ids in the usage history.
C14_Witness ==
    /\ last_call.op = "remove_local_static_source"
    /\ last_call.freed # {}
    /\ last_call.freed \cap paths_of(sources) = {}
    /\ sources # <<>>
    /\ last_scheduled_tasks # <<>>

\* C15: remove_worktree_sources(id) drops every registration whose kind is
\* Worktree with this id, at whatever path, and nothing else: UserInput and
\* AbsPath registrations and Worktree registrations of other ids stay, in the
\* order they had, and the usage history is the same.
C15_RemoveByWorktreeFrame ==
    \A before \in InventoriesNearby, worktree \in WorktreeIds :
        LET after == remove_worktree_sources(before, worktree)
            OfWorktree(s) == s.kind.tag = "Worktree" /\ s.kind.id = worktree
        IN /\ after.sources = Without(before.sources, OfWorktree)
           /\ after.last_scheduled_tasks = before.last_scheduled_tasks

\* C15 witness: remove_worktree_sources has removed the registrations of its
\* worktree id at two paths, with ids in the usage history.
C15_Witness ==
    /\ last_call.op = "remove_worktree_sources"
    /\ Cardinality(last_call.freed) = 2
    /\ paths_of(sources) = {}
    /\ last_scheduled_tasks # <<>>

-----------------------------------------------------------------------------
(* Change notification.                                                    *)

\* C16: add_static_source calls cx.notify() exactly when it appends a
\* registration, so never on a rejected duplicate, and the Inventory is
\* notified whenever a registered source notifies a change.
C16_ChangeNotification ==
    /\ \A kind \in Kinds, f \in Factories :
           LET done == add_static_source(inventory, kind, f) IN
           /\ done.notified = done.created
           /\ done.created = (Len(done.self.sources) = Len(sources) + 1)
           /\ PathOccupied(sources, kind) => ~done.notified
    /\ \A i \in 1..Len(sources) : source_notified(inventory, i).notified
    /\ last_call.op = "add_static_source" => last_call.notified = last_call.created
    /\ last_call.op = "source_changed" => last_call.notified

\* C16 witness: with two sources registered, one of them has changed and the
\* Inventory was notified.
C16_Witness ==
    /\ last_call.op = "source_changed"
    /\ last_call.notified
    /\ Len(sources) = 2

-----------------------------------------------------------------------------
(* source::<T>.                                                            *)

\* C18: source::<T> is None (<<>>) when no registration has the type T, and
\* otherwise the handle of the earliest registration of that type, however
\* many there are.
C18_FirstSourceOfType ==
    \A target_type_id \in TypeIds :
        LET found == source(inventory, target_type_id)
            OfType(i) == sources[i].type_id = target_type_id
        IN /\ (\A i \in 1..Len(sources) : ~OfType(i)) => found = <<>>
           /\ (\E i \in 1..Len(sources) : OfType(i))
              => /\ Len(found) = 1
                 /\ OfType(found[1].at)
                 /\ \A k \in 1..(found[1].at - 1) : ~OfType(k)
                 /\ found[1].source = sources[found[1].at].source

\* C18 witness: two registrations of one type, of different kinds, and none
\* of the other type; the first is found, the other type is not.
C18_Witness ==
    /\ last_call.op = "add_static_source" /\ last_call.created
    /\ Len(sources) = 2
    /\ sources[1].type_id = "OneshotSource" /\ sources[2].type_id = "OneshotSource"
    /\ sources[1].kind # sources[2].kind
    /\ source(inventory, "OneshotSource") # <<>>
    /\ source(inventory, "OneshotSource")[1].at = 1
    /\ source(inventory, "TestSource") = <<>>

-----------------------------------------------------------------------------
(* What task_scheduled leaves alone.                                       *)

\* an id no task of any source has
UnregisteredId == "task_9_none"

\* the ids task_scheduled is tried with from each inventory
IdsTried == ScheduledIds \cup {UnregisteredId}

\* the registrations and the answers of source::<T> are the same in
\* inventory and in after
SameRegistrations(after) ==
    /\ after.sources = sources
    /\ \A target_type_id \in TypeIds :
           source(after, target_type_id) = source(inventory, target_type_id)

\* the listings that do not rank by recency are the same in inventory and
\* after task_scheduled(id), for every id tried
SamePlainListings ==
    \A worktree \in WorktreeArgs, unstable_runs \in UnstableRuns :
        LET before == Listed(worktree, FALSE, unstable_runs) IN
        \A id \in IdsTried :
            list_tasks(task_scheduled(inventory, id), None, worktree, FALSE,
                       unstable_runs) = before

\* C17 as stated: task_scheduled(id) is defined for every id and leaves the
\* registrations and every query other than the recency-ranked listings as
\* they were: source::<T>, list_tasks without recency and last_scheduled_task
\* answer the same before and after the call.
C17_OnlyRecencyListingsChange ==
    /\ SamePlainListings
    /\ \A id \in IdsTried :
           LET after == task_scheduled(inventory, id) IN
           /\ SameRegistrations(after)
           /\ \A unstable_runs \in UnstableRuns :
                  last_scheduled_task(after, unstable_runs)
                      = last_scheduled_task(inventory, unstable_runs)

\* C17 amended: task_scheduled(id) is defined for every id and leaves the
\* registrations, source::<T> and list_tasks without recency as they were;
\* last_scheduled_task afterwards answers for the id just recorded: None
\* (<<>>) when no registered task has it, a task with that id otherwise.
C17_ScheduleFrame ==
    /\ SamePlainListings
    /\ \A id \in IdsTried :
           LET after == task_scheduled(inventory, id) IN
           /\ SameRegistrations(after)
           /\ \A unstable_runs \in UnstableRuns :
                  LET found == last_scheduled_task(after, unstable_runs) IN
                  /\ (found = <<>>) = (\A task \in RegisteredTasks : task.id # id)
                  /\ found # <<>> => found[1].id = id /\ found[1] \in RegisteredTasks

\* C17 witness: task_scheduled has recorded an id that a task of one of two
\* registered sources has, and last_scheduled_task now answers with it.
C17_Witness ==
    /\ last_call.op = "task_scheduled"
    /\ Len(sources) = 2
    /\ last_scheduled_tasks # <<>>
    /\ last_scheduled_task(inventory, {}) # <<>>
    /\ last_scheduled_task(inventory, {})[1].id
           = last_scheduled_tasks[Len(last_scheduled_tasks)]

-----------------------------------------------------------------------------
(* The composite sort key.                                                 *)

\* the recency rank of a listed entry, from the usage history alone: the
\* number of distinct ids used more recently than the entry's id, and the
\* number of distinct ids in the history for an unused entry; one rank for
\* all when the listing does not rank by recency
Rank(entry, lru) ==
    IF ~lru THEN 0
    ELSE IF Used(entry)
         THEN Cardinality({ id \in Range(last_scheduled_tasks) :
                              LastUse(id) > LastUse(entry[2].id) })
         ELSE Cardinality(Range(last_scheduled_tasks))

\* the composite key of a is not greater than that of b: rank, then worktree
\* origin before any other, then the name (numeric-aware, then raw)
KeyNotGreater(a, b, lru) ==
    \/ Rank(a, lru) < Rank(b, lru)
    \/ /\ Rank(a, lru) = Rank(b, lru)
       /\ \/ FromWorktree(a) /\ ~FromWorktree(b)
          \/ /\ FromWorktree(a) = FromWorktree(b)
             /\ NameOrder[a[2].name, b[2].name] # "Greater"

\* C19: in every listing the key (rank, worktree origin first, numeric-aware
\* name, raw name) of an entry is not greater than that of any later entry,
\* adjacent ones included; so a used task of any origin precedes an unused
\* worktree task, and at equal rank worktree tasks precede the others.
C19_CompositeKeyOrder ==
    \A worktree \in WorktreeArgs, lru \in BOOLEAN, unstable_runs \in UnstableRuns :
        LET listed == Listed(worktree, lru, unstable_runs) IN
        \A i, j \in 1..Len(listed) :
            /\ i < j => KeyNotGreater(listed[i], listed[j], lru)
            /\ (lru /\ Used(listed[i]) /\ ~Used(listed[j])) => i < j
            /\ (/\ Rank(listed[i], lru) = Rank(listed[j], lru)
                /\ FromWorktree(listed[i]) /\ ~FromWorktree(listed[j])) => i < j

\* C19 witness: a used task that is not of a worktree is listed before an
\* unused worktree task, and of two unused tasks the worktree one comes
\* before one of smaller name from elsewhere.
C19_Witness ==
    LET listed == Listed(None, TRUE, {}) IN
    /\ \E i, j \in 1..Len(listed) :
           /\ i < j
           /\ Used(listed[i]) /\ ~FromWorktree(listed[i])
           /\ ~Used(listed[j]) /\ FromWorktree(listed[j])
    /\ \E i, j \in 1..Len(listed) :
           /\ i < j
           /\ ~Used(listed[i]) /\ ~Used(listed[j])
           /\ FromWorktree(listed[i]) /\ ~FromWorktree(listed[j])
           /\ NameOrder[listed[i][2].name, listed[j][2].name] = "Greater"

-----------------------------------------------------------------------------
(* Entries that tie on the whole key.                                      *)

\* the fan-out list_tasks sorts: the tasks of the participating registrations
\* in registration order, each source's in the order it returned them
FanOutOrder(worktree) ==
    LET pairs == fan_out(sources, 1, None, worktree) IN
    Vec_from_iter([j \in 1..Len(pairs) |-> <<pairs[j].kind, pairs[j].task>>])

\* C20: the sort is stable: the entries that tie with a listed entry on the
\* whole key (rank, origin, name) are in the listing in the order the fan-out
\* has them, whatever the sort of the build does with entries that compare
\* equal.
C20_StableSort ==
    \A worktree \in WorktreeArgs, lru \in BOOLEAN, unstable_runs \in UnstableRuns :
        LET listed == Listed(worktree, lru, unstable_runs)
            fanned == FanOutOrder(worktree)
        IN \A k \in 1..Len(listed) :
               LET TiesWithK(entry) ==
                       /\ KeyNotGreater(entry, listed[k], lru)
                       /\ KeyNotGreater(listed[k], entry, lru)
               IN SelectSeq(listed, TiesWithK) = SelectSeq(fanned, TiesWithK)

-----------------------------------------------------------------------------
(* list_tasks and the fan-out.                                             *)

\* registration i takes part in a listing under the worktree filter
Participates(i, worktree) == source_participates(sources[i], worktree)

\* C21: every listing is a permutation of the fan-out: it has as many
\* entries as the participating registrations hold tasks, every pair of a
\* participating registration's kind and one of its tasks occurs in it as
\* often as the participating registrations hold it (equal names or ids
\* merge nothing), every entry is such a pair, the listing is empty when no
\* registration participates, and the Inventory after the call is the
\* Inventory before it.
C21_PermutationOfFanOut ==
    \A worktree \in WorktreeArgs, lru \in BOOLEAN, unstable_runs \in UnstableRuns :
        LET done == list_tasks_call(inventory, None, worktree, lru, unstable_runs)
            listed == done.listed
            fanned == FanOutOrder(worktree)
            taking_part == { i \in 1..Len(sources) : Participates(i, worktree) }
        IN /\ done.self = inventory
           /\ Len(listed) = Len(fanned)
           /\ \A k \in 1..Len(fanned) :
                  Occurrences(listed, fanned[k]) = Occurrences(fanned, fanned[k])
           /\ \A k \in 1..Len(listed) :
                  \E i \in taking_part :
                      /\ listed[k][1] = sources[i].kind
                      /\ listed[k][2] \in Range(sources[i].source)
           /\ taking_part = {} => listed = <<>>

\* C21 witness: two registrations hold the same tasks (ids and names) under
\* different kinds; the listing under a recorded usage holds every task of
\* both, the same task once under each kind.
C21_Witness ==
    LET listed == Listed(None, TRUE, {}) IN
    /\ Len(sources) = 2
    /\ sources[1].source = sources[2].source
    /\ sources[1].kind # sources[2].kind
    /\ last_scheduled_tasks # <<>>
    /\ Len(listed) = Len(sources[1].source) + Len(sources[2].source)
    /\ \E i, j \in 1..Len(listed) :
           i # j /\ listed[i][2] = listed[j][2] /\ listed[i][1] # listed[j][1]

-----------------------------------------------------------------------------
(* The tasks modal: matches against candidates.                            *)

\* C22: while the modal is open, whatever update_matches futures are
\* suspended and whatever sources came or went, every match names a
\* candidate that is there (its candidate_id indexes candidates in bounds)
\* and that is the task it was matched against (the candidate has the
\* match's string as its name); no handler panics on the index.
C22_MatchesIndexCandidates ==
    /\ modal # "panicked"
    /\ modal = "open" =>
           \A k \in 1..Len(matches) :
               /\ in_bounds(candidates, matches[k].candidate_id)
               /\ candidates[matches[k].candidate_id + 1][2].name = matches[k].string

-----------------------------------------------------------------------------
(* Removal and the change subscriptions.                                   *)

\* what a removal call leaves of the subscriptions: it does not notify, what
\* it dropped and what it kept are the registrations it started from, a
\* dropped registration's Subscription is gone and its source no longer
\* notifies the Inventory, and a kept registration's source still does
RemovalKeepsOnlyKeptSubscriptions(call) ==
    /\ ~call.notified
    /\ Len(call.dropped) + Len(call.self.sources) = Len(sources)
    /\ \A k \in 1..Len(call.dropped) :
           /\ ~call.dropped[k]._subscription
           /\ \E i \in 1..Len(sources) :
                  SourceInInventory_drop(sources[i]) = call.dropped[k]
           /\ ~dropped_source_notified(call.self, call.dropped[k]).notified
    /\ \A i \in 1..Len(call.self.sources) :
           source_notified(call.self, i).notified

\* C23: remove_local_static_source and remove_worktree_sources never call
\* cx.notify(), whether they remove registrations or not; a registration
\* they remove is dropped with its Subscription, so a later change of its
\* source does not notify the Inventory, while the sources of the
\* registrations that stay still do.
C23_RemovalIsSilent ==
    /\ \A abs_path \in Paths :
           RemovalKeepsOnlyKeptSubscriptions(
               remove_local_static_source_call(inventory, abs_path))
    /\ \A worktree \in WorktreeIds :
           RemovalKeepsOnlyKeptSubscriptions(
               remove_worktree_sources_call(inventory, worktree))
    /\ last_call.op \in {"remove_local_static_source", "remove_worktree_sources"}
       => ~last_call.notified

\* C23 witness: remove_local_static_source has removed the registration at
\* its path without a notification and left one whose source still notifies;
\* removing that one by its worktree id drops it as well.
C23_Witness ==
    /\ last_call.op = "remove_local_static_source"
    /\ last_call.freed # {}
    /\ ~last_call.notified
    /\ Len(sources) = 1
    /\ source_notified(inventory, 1).notified
    /\ sources[1].kind.tag = "Worktree"
    /\ Len(remove_worktree_sources_call(inventory, sources[1].kind.id).dropped) = 1

====
